---- MODULE Spec2Model ----
(***************************************************************************)
(* ReactionBlitz (src/script.js): the ReactionGame session state machine,  *)
(* its two kinds of timers (the randomized trigger and the Error           *)
(* auto-reset), the best-score record in localStorage and the result       *)
(* message.                                                                *)
(*                                                                         *)
(* Time is in milliseconds.  The scheduler is the ideal one of the         *)
(* Scheduler contract: a timer's callback runs when the clock reads its    *)
(* due time, the clock does not pass a due timer, timers due at the same   *)
(* instant run in the order they were scheduled, and a click that arrives  *)
(* at the instant a timer is due may be handled before or after it.        *)
(* Date.now() is taken to be non-decreasing.                               *)
(***************************************************************************)
EXTENDS Integers, Sequences, FiniteSets, TLC

VARIABLES
    currentState,   \* this.currentState
    startTime,      \* this.startTime    (Null or a Date.now() value)
    reactionTime,   \* this.reactionTime (Null or milliseconds)
    waitTimeout,    \* this.waitTimeout  (Null or a timer handle)
    bestScore,      \* this.bestScore    (Null or milliseconds)
    resultMessage,  \* this.resultMessage.textContent, as a sequence of parts
    storage,        \* localStorage['reactionGameBestScore'] (Absent or digits)
    timers,         \* the browser's outstanding timers (scheduled, not fired, not cleared)
    nextHandle,     \* the handle the next setTimeout returns
    clock,          \* Date.now()
    reactionGame,   \* window.reactionGame is set (the game has been constructed)
    lastEvent,      \* history: the event handled by the last step
    minRecorded     \* history: the least reaction time recorded so far (Null if none)

vars == <<currentState, startTime, reactionTime, waitTimeout, bestScore,
          resultMessage, storage, timers, nextHandle, clock, reactionGame,
          lastEvent, minRecorded>>

----------------------------------------------------------------------------
(* Bounds of the model *)

MaxClock == 4000
MaxHandles == 4
MaxEvalTime == 600

(* Inputs: the truncated values of Math.random() * 2000 + 1000, the steps  *)
(* by which the clock advances, and the tagName of a clicked non-control   *)
(* element.                                                                *)
WaitTimes == {1000, 2500}
Deltas == {250, 500}
SurfaceTags == {"BODY", "DIV"}

----------------------------------------------------------------------------
(* Values *)

Null == -1

START == "start"
WAITING == "waiting"
READY == "ready"
RESULT == "result"
ERROR == "error"
GameStates == {START, WAITING, READY, RESULT, ERROR}

\* JavaScript truthiness of a number-or-null: null and 0 are falsy.
Truthy(v) == v # Null /\ v # 0

\* A missing localStorage item (getItem returns null).
Absent == <<Null>>

\* JavaScript truthiness of a string-or-null: null and "" are falsy.
TruthyText(s) == s # Absent /\ Len(s) > 0

\* Number.prototype.toString of an integer >= 0: its decimal digits.
RECURSIVE toString(_)
toString(n) == IF n < 10 THEN <<n>> ELSE Append(toString(n \div 10), n % 10)

\* parseInt of a string of decimal digits.
RECURSIVE parseInt(_)
parseInt(s) ==
    IF Len(s) = 0 THEN Null
    ELSE IF Len(s) = 1 THEN s[1]
    ELSE parseInt(SubSeq(s, 1, Len(s) - 1)) * 10 + s[Len(s)]

NoTimer == [id |-> 0, kind |-> "none", at |-> 0, delay |-> 0, due |-> 0, endedBy |-> "none"]

AutoResetDelay == 3000

----------------------------------------------------------------------------
(* The game object together with the browser state its methods act on. *)

World ==
    [currentState |-> currentState, startTime |-> startTime,
     reactionTime |-> reactionTime, waitTimeout |-> waitTimeout,
     bestScore |-> bestScore, resultMessage |-> resultMessage,
     storage |-> storage, timers |-> timers, nextHandle |-> nextHandle,
     minRecorded |-> minRecorded]

Commit(w) ==
    /\ currentState' = w.currentState
    /\ startTime' = w.startTime
    /\ reactionTime' = w.reactionTime
    /\ waitTimeout' = w.waitTimeout
    /\ bestScore' = w.bestScore
    /\ resultMessage' = w.resultMessage
    /\ storage' = w.storage
    /\ timers' = w.timers
    /\ nextHandle' = w.nextHandle
    /\ minRecorded' = w.minRecorded

\* setTimeout(callback, delay) at time now; the handle returned is w.nextHandle.
setTimeout(w, kind, delay, now) ==
    [w EXCEPT !.timers = @ \cup {[id |-> w.nextHandle, kind |-> kind, at |-> now,
                                  delay |-> delay, due |-> now + delay,
                                  endedBy |-> "none"]},
              !.nextHandle = @ + 1]

\* clearTimeout(h): no effect on a handle that has fired or was cleared.
clearTimeout(w, h) == [w EXCEPT !.timers = {t \in @ : t.id # h}]

\* History: the Waiting period of every trigger still outstanding has ended,
\* by a click, a reset, a new start or an auto-reset.  The handlers below
\* decide whether such a trigger is cleared.
Supersede(w, by) ==
    [w EXCEPT !.timers = {IF t.kind = "trigger" /\ t.endedBy = "none"
                          THEN [t EXCEPT !.endedBy = by] ELSE t : t \in @}]

\* History: when the machine leaves Error, the auto-reset timer of that Error
\* period (if still outstanding) is marked with what ended the period.
LeaveError(w, by) ==
    IF w.currentState # ERROR THEN w
    ELSE [w EXCEPT !.timers = {IF t.kind = "autoreset" /\ t.endedBy = "none"
                               THEN [t EXCEPT !.endedBy = by] ELSE t : t \in @}]

loadBestScore(w) == IF TruthyText(w.storage) THEN parseInt(w.storage) ELSE Null

\* Mutant: the record is written to localStorage but not to this.bestScore.
saveBestScore_StorageOnly(w, score) == [w EXCEPT !.storage = toString(score)]

saveBestScore(w, score) ==
    [w EXCEPT !.storage = toString(score), !.bestScore = score]

updateUI(w, now) ==
    IF w.currentState = ERROR THEN setTimeout(w, "autoreset", AutoResetDelay, now)
    ELSE w

setState(w, newState, now) == updateUI([w EXCEPT !.currentState = newState], now)

startGame(w, waitTime, now) ==
    LET w1 == IF Truthy(w.waitTimeout) THEN clearTimeout(w, w.waitTimeout) ELSE w
        w2 == setState(w1, WAITING, now)
        w3 == setTimeout(w2, "trigger", waitTime, now)
    IN  [w3 EXCEPT !.waitTimeout = w2.nextHandle]

\* The callback startGame schedules.
triggerCallback(w, now) ==
    IF w.currentState = WAITING
    THEN setState([w EXCEPT !.startTime = now], READY, now)
    ELSE w

\* Mutant: the early click forgets the handle without clearing the timer.
handleEarlyClick_NoClear(w, now) ==
    setState([w EXCEPT !.waitTimeout = Null], ERROR, now)

handleEarlyClick(w, now) ==
    LET w1 == IF Truthy(w.waitTimeout)
              THEN [clearTimeout(w, w.waitTimeout) EXCEPT !.waitTimeout = Null]
              ELSE w
    IN  setState(w1, ERROR, now)

\* The four rating texts of getResultMessage and its new-record notice, under
\* the names the specification gives them.
Rating(time) ==
    IF time < 200 THEN "ultra-fast"
    ELSE IF time < 300 THEN "great"
    ELSE IF time < 500 THEN "good"
    ELSE "room to improve"

\* Mutant: the thresholds are inclusive upper bounds.
getResultMessage_Inclusive(time, isNewRecord) ==
    <<IF time <= 200 THEN "ultra-fast"
      ELSE IF time <= 300 THEN "great"
      ELSE IF time <= 500 THEN "good"
      ELSE "room to improve">> \o (IF isNewRecord THEN <<"new record">> ELSE <<>>)

getResultMessage(time, isNewRecord) ==
    <<Rating(time)>> \o (IF isNewRecord THEN <<"new record">> ELSE <<>>)

showResult(w, time, isNewRecord) ==
    [w EXCEPT !.resultMessage = getResultMessage(time, isNewRecord)]

\* minRecorded is history: it keeps the least reactionTime assigned so far.
handleReactionClick(w, now) ==
    IF ~Truthy(w.startTime) THEN w
    ELSE LET rt == now - w.startTime
             isNewRecord == ~Truthy(w.bestScore) \/ rt < w.bestScore
             w1 == [w EXCEPT !.reactionTime = rt,
                             !.minRecorded = IF @ = Null \/ rt < @ THEN rt ELSE @]
             w2 == IF isNewRecord THEN saveBestScore(w1, rt) ELSE w1
             w3 == showResult(w2, rt, isNewRecord)
         IN  setState(w3, RESULT, now)

\* Mutant: clicks on buttons are not filtered out.
handleBodyClick_NoFilter(w, tagName, now) ==
    IF w.currentState = WAITING THEN handleEarlyClick(w, now)
    ELSE IF w.currentState = READY THEN handleReactionClick(w, now)
    ELSE w

\* Mutant: a click in Result measures again.
handleBodyClick_ResultToo(w, tagName, now) ==
    IF tagName = "BUTTON" THEN w
    ELSE IF w.currentState = WAITING THEN handleEarlyClick(w, now)
    ELSE IF w.currentState \in {READY, RESULT} THEN handleReactionClick(w, now)
    ELSE w

\* Mutant: a click in Error is handled as an early click again.
handleBodyClick_ErrorToo(w, tagName, now) ==
    IF tagName = "BUTTON" THEN w
    ELSE IF w.currentState \in {WAITING, ERROR} THEN handleEarlyClick(w, now)
    ELSE IF w.currentState = READY THEN handleReactionClick(w, now)
    ELSE w

handleBodyClick(w, tagName, now) ==
    IF tagName = "BUTTON" THEN w
    ELSE IF w.currentState = WAITING THEN handleEarlyClick(w, now)
    ELSE IF w.currentState = READY THEN handleReactionClick(w, now)
    ELSE w

\* Mutant: reset forgets the handle without clearing the timer.
resetGame_NoClear(w, now) ==
    setState([w EXCEPT !.waitTimeout = Null, !.startTime = Null, !.reactionTime = Null],
             START, now)

\* Mutant: reset clears the timer but keeps its handle.
resetGame_KeepHandle(w, now) ==
    LET w1 == IF Truthy(w.waitTimeout) THEN clearTimeout(w, w.waitTimeout) ELSE w
    IN  setState([w1 EXCEPT !.startTime = Null, !.reactionTime = Null], START, now)

\* Mutant: reset does not clear startTime.
resetGame_KeepStartTime(w, now) ==
    LET w1 == IF Truthy(w.waitTimeout)
              THEN [clearTimeout(w, w.waitTimeout) EXCEPT !.waitTimeout = Null]
              ELSE w
    IN  setState([w1 EXCEPT !.reactionTime = Null], START, now)

resetGame(w, now) ==
    LET w1 == IF Truthy(w.waitTimeout)
              THEN [clearTimeout(w, w.waitTimeout) EXCEPT !.waitTimeout = Null]
              ELSE w
    IN  setState([w1 EXCEPT !.startTime = Null, !.reactionTime = Null], START, now)

\* new ReactionGame() on a fresh page: no timers, handles start at 1.
Constructor(store) ==
    LET w0 == [currentState |-> START, startTime |-> Null, reactionTime |-> Null,
               waitTimeout |-> Null, bestScore |-> Null, resultMessage |-> <<>>,
               storage |-> store, timers |-> {}, nextHandle |-> 1,
               minRecorded |-> minRecorded]
    IN  [w0 EXCEPT !.bestScore = loadBestScore(w0)]

----------------------------------------------------------------------------
(* Events *)

\* The outstanding timer whose callback runs next.
NextTimer(ts) ==
    CHOOSE t \in ts : \A u \in ts : t.due < u.due \/ (t.due = u.due /\ t.id <= u.id)

\* History record of a step: the event, the timer that fired (if any) and the
\* state the event was handled in.
Event(ev, t) ==
    [ev |-> ev, timer |-> t, from |-> IF reactionGame THEN currentState ELSE "none"]

\* Mutant: the listener asks in Waiting only.
beforeunload_WaitingOnly(exists, state) == exists /\ state = WAITING

\* The beforeunload listener: TRUE when it calls preventDefault and sets
\* returnValue, which makes the host ask the user to confirm the discard.
beforeunload(exists, state) == exists /\ (state = WAITING \/ state = READY)

Init ==
    /\ clock = 1
    /\ reactionGame = TRUE
    /\ lastEvent = [ev |-> "load", timer |-> NoTimer, from |-> "none"]
    /\ minRecorded = Null
    /\ currentState = START
    /\ startTime = Null
    /\ reactionTime = Null
    /\ waitTimeout = Null
    /\ bestScore = Null
    /\ resultMessage = <<>>
    /\ storage = Absent
    /\ timers = {}
    /\ nextHandle = 1

\* A click on #start-button: its listener, then the listener on body.
ClickStartButton ==
    /\ reactionGame
    /\ nextHandle <= MaxHandles
    /\ \E waitTime \in WaitTimes :
          Commit(handleBodyClick(startGame(LeaveError(Supersede(World, "start"), "start"),
                                           waitTime, clock),
                                 "BUTTON", clock))
    /\ lastEvent' = Event("startButton", NoTimer)
    /\ UNCHANGED <<clock, reactionGame>>

\* A click on #play-again-button: its listener, then the listener on body.
ClickPlayAgainButton ==
    /\ reactionGame
    /\ Commit(handleBodyClick(resetGame(LeaveError(Supersede(World, "reset"), "reset"),
                                        clock),
                              "BUTTON", clock))
    /\ lastEvent' = Event("playAgainButton", NoTimer)
    /\ UNCHANGED <<clock, reactionGame>>

\* A click anywhere else: the listener on body alone.
ClickSurface ==
    /\ reactionGame
    /\ currentState = WAITING => nextHandle <= MaxHandles
    /\ \E tagName \in SurfaceTags :
          Commit(handleBodyClick(IF currentState = WAITING
                                 THEN Supersede(World, "click") ELSE World,
                                 tagName, clock))
    /\ lastEvent' = Event("surface", NoTimer)
    /\ UNCHANGED <<clock, reactionGame>>

TriggerFires ==
    /\ timers # {}
    /\ LET t == NextTimer(timers) IN
          /\ t.due <= clock
          /\ t.kind = "trigger"
          /\ Commit(triggerCallback([World EXCEPT !.timers = @ \ {t}], clock))
          /\ lastEvent' = Event("trigger", t)
    /\ UNCHANGED <<clock, reactionGame>>

AutoResetFires ==
    /\ timers # {}
    /\ LET t == NextTimer(timers) IN
          /\ t.due <= clock
          /\ t.kind = "autoreset"
          /\ Commit(resetGame(LeaveError(Supersede([World EXCEPT !.timers = @ \ {t}],
                                                   "autoreset"),
                                         "autoreset"),
                              clock))
          /\ lastEvent' = Event("autoreset", t)
    /\ UNCHANGED <<clock, reactionGame>>

Tick ==
    /\ \E d \in Deltas \cup {t.due - clock : t \in timers} :
          /\ d > 0
          /\ clock + d <= MaxClock
          /\ \A t \in timers : clock + d <= t.due
          /\ clock' = clock + d
    /\ lastEvent' = Event("tick", NoTimer)
    /\ UNCHANGED <<currentState, startTime, reactionTime, waitTimeout, bestScore,
                   resultMessage, storage, timers, nextHandle, minRecorded,
                   reactionGame>>

\* The host is about to discard the page and the discard takes place: the
\* listener did not ask for confirmation, or the user confirmed.  Until
\* DOMContentLoaded there is no game and no timer; the fields of the game that
\* does not exist yet hold the values its constructor will give them.
UnloadPage ==
    /\ Commit(Constructor(storage))
    /\ reactionGame' = FALSE
    /\ lastEvent' = Event(IF beforeunload(reactionGame, currentState)
                          THEN "unloadConfirmed" ELSE "unload", NoTimer)
    /\ UNCHANGED clock

\* The host is about to discard the page, the listener asked for
\* confirmation and the user chose to stay.
StayOnPage ==
    /\ beforeunload(reactionGame, currentState)
    /\ lastEvent' = Event("unloadCancelled", NoTimer)
    /\ UNCHANGED <<currentState, startTime, reactionTime, waitTimeout, bestScore,
                   resultMessage, storage, timers, nextHandle, minRecorded,
                   reactionGame, clock>>

\* The page is loaded again: DOMContentLoaded builds a new game.
PageLoad ==
    /\ ~reactionGame
    /\ Commit(Constructor(storage))
    /\ reactionGame' = TRUE
    /\ lastEvent' = Event("load", NoTimer)
    /\ UNCHANGED clock

Next ==
    \/ ClickStartButton
    \/ ClickPlayAgainButton
    \/ ClickSurface
    \/ TriggerFires
    \/ AutoResetFires
    \/ Tick
    \/ UnloadPage
    \/ StayOnPage
    \/ PageLoad

Spec == Init /\ [][Next]_vars

----------------------------------------------------------------------------
(* A third specification: the start control is activated in Start only, as *)
(* in the transition table (updateUI shows the start button in Start and   *)
(* hides it in every other state).                                         *)

ClickStartButtonInStart ==
    /\ currentState = START
    /\ ClickStartButton

NextStartInStart ==
    \/ ClickStartButtonInStart
    \/ ClickPlayAgainButton
    \/ ClickSurface
    \/ TriggerFires
    \/ AutoResetFires
    \/ Tick
    \/ UnloadPage
    \/ StayOnPage
    \/ PageLoad

SpecStartInStart == Init /\ [][NextStartInStart]_vars

----------------------------------------------------------------------------
(* A second specification for the result message: the game is Ready (the   *)
(* page was loaded with BestSeeds' record stored, started with a wait of   *)
(* 1000 ms at clock 1, and the trigger fired at 1001), any number of       *)
(* milliseconds up to MaxEvalTime have passed, and the surface is clicked. *)

BestSeeds == {Null, 100}

InitEval ==
    /\ currentState = READY
    /\ startTime = 1001
    /\ \E r \in 0..MaxEvalTime : clock = startTime + r
    /\ reactionTime = Null
    /\ waitTimeout = 1
    /\ \E b \in BestSeeds :
          /\ bestScore = b
          /\ minRecorded = b
          /\ storage = IF b = Null THEN Absent ELSE toString(b)
    /\ resultMessage = <<>>
    /\ timers = {}
    /\ nextHandle = 2
    /\ reactionGame = TRUE
    /\ lastEvent = [ev |-> "tick", timer |-> NoTimer, from |-> READY]

NextEval == ClickSurface

SpecEval == InitEval /\ [][NextEval]_vars

----------------------------------------------------------------------------
(* Claims *)

\* C1: a surface click handled while the state is Waiting always moves the
\* machine to Error (never to Ready) and leaves no trigger outstanding, and
\* the trigger of a Waiting period that an early click ended never afterwards
\* changes the state or startTime.
C1_EarlyClickYieldsError ==
    [][ /\ (lastEvent'.ev = "surface" /\ currentState = WAITING)
            => /\ currentState' = ERROR
               /\ \A t \in timers' : t.kind # "trigger"
        /\ (lastEvent'.ev = "trigger" /\ lastEvent'.timer.endedBy = "click")
            => /\ currentState' = currentState
               /\ startTime' = startTime ]_vars

\* An early click was handled in Waiting at clock 1001, the earliest instant
\* at which a trigger can be due.
C1_Witness ==
    /\ lastEvent.ev = "surface"
    /\ lastEvent.from = WAITING
    /\ currentState = ERROR
    /\ clock = 1001
    /\ nextHandle = 3
\* C2 (as claimed): once a best score is set, every later value, in memory
\* and persisted, is less than or equal to the value before it.
C2_BestScoreNonIncreasing ==
    [][ /\ bestScore # Null => (bestScore' # Null /\ bestScore' <= bestScore)
        /\ storage # Absent
            => (storage' # Absent /\ parseInt(storage') <= parseInt(storage)) ]_vars

\* C3 (as claimed): the persisted best score is the decimal text of the least
\* reaction time recorded so far, and absent while none has been recorded.
C3_PersistedIsRunningMinimum ==
    storage = IF minRecorded = Null THEN Absent ELSE toString(minRecorded)

\* The auto-reset timer scheduled by the latest entry into Error.
LatestAutoReset ==
    CHOOSE t \in timers :
        t.kind = "autoreset" /\ \A u \in timers : u.kind = "autoreset" => u.id <= t.id

\* C4 (as claimed): with no start or reset command, the machine stays in
\* Error until 3000 ms after it entered Error and leaves it, for Start, at
\* exactly that instant.
C4_AutoResetAfterExactly3000 ==
    [][ (currentState = ERROR /\ lastEvent'.ev \in {"tick", "surface", "trigger", "autoreset"})
            => \/ currentState' = ERROR /\ clock' <= LatestAutoReset.at + 3000
               \/ currentState' = START /\ clock' = LatestAutoReset.at + 3000 ]_vars

\* C5: the reset control activated while Waiting moves the machine to Start
\* and leaves no trigger outstanding, and the trigger of a Waiting period that
\* a reset ended never afterwards changes the state or startTime.
C5_ResetCancelsTrigger ==
    [][ /\ (lastEvent'.ev = "playAgainButton" /\ currentState = WAITING)
            => /\ currentState' = START
               /\ \A t \in timers' : t.kind # "trigger"
        /\ (lastEvent'.ev = "trigger" /\ lastEvent'.timer.endedBy = "reset")
            => /\ currentState' = currentState
               /\ startTime' = startTime ]_vars

\* The reset control was activated while Waiting, before the trigger was due.
C5_Witness ==
    /\ lastEvent.ev = "playAgainButton"
    /\ lastEvent.from = WAITING
    /\ currentState = START
    /\ timers = {}
    /\ clock = 501

\* C6 (as claimed): while Waiting, the trigger of the period is outstanding
\* with a delay in [1000, 3000); unless a click or a command is handled, the
\* machine stays Waiting until the delay has elapsed and becomes Ready at that
\* instant, with startTime set to the clock.
C6_ReadyWhenDelayElapses ==
    /\ [](currentState = WAITING
            => \E t \in timers : /\ t.kind = "trigger" /\ t.id = waitTimeout
                                 /\ t.delay >= 1000 /\ t.delay < 3000
                                 /\ t.due = t.at + t.delay /\ clock <= t.due)
    /\ [][ (currentState = WAITING /\ lastEvent'.ev \in {"tick", "trigger", "autoreset"})
            => \/ currentState' = WAITING
               \/ /\ currentState' = READY
                  /\ lastEvent'.ev = "trigger"
                  /\ clock' = lastEvent'.timer.at + lastEvent'.timer.delay
                  /\ startTime' = clock' ]_vars

\* C7: reactionTime is given a value only by a surface click handled in Ready
\* with startTime set, the step enters Result, and the value is
\* clock - startTime >= 0; Ready is entered only from Waiting, so this happens
\* at most once per start; a surface click handled in Result changes neither
\* reactionTime nor the best score.
C7_ReactionTimeSetOnce ==
    [][ /\ (reactionTime' # reactionTime /\ reactionTime' # Null)
            => /\ lastEvent'.ev = "surface"
               /\ currentState = READY
               /\ Truthy(startTime)
               /\ currentState' = RESULT
               /\ reactionTime' = clock - startTime
               /\ reactionTime' >= 0
        /\ (currentState # READY /\ currentState' = READY) => currentState = WAITING
        /\ (currentState # RESULT /\ currentState' = RESULT) => reactionTime' # Null
        /\ (lastEvent'.ev = "surface" /\ currentState = RESULT)
            => UNCHANGED <<currentState, reactionTime, bestScore, storage>> ]_vars

\* A further click was handled after Result was reached with 250 ms.
C7_Witness ==
    /\ lastEvent.ev = "surface"
    /\ lastEvent.from = RESULT
    /\ currentState = RESULT
    /\ reactionTime = 250

\* C8: a surface click handled in Ready while startTime is not set changes
\* neither the state, reactionTime nor the best score.  No reachable state
\* is Ready with startTime unset (C8_ReadyHasStartTime), so no step of the
\* program takes this branch of handleReactionClick.
C8_MissingTimestampDropped ==
    [][ (lastEvent'.ev = "surface" /\ currentState = READY /\ ~Truthy(startTime))
            => UNCHANGED <<currentState, reactionTime, bestScore, storage>> ]_vars

C8_ReadyHasStartTime == currentState = READY => Truthy(startTime)

\* C9: after a click on the start control the machine is Waiting with the
\* trigger just scheduled (not Error), and after a click on the reset control
\* it is in Start: the body listener ignored both clicks.
C9_ControlsAreNotSurfaceClicks ==
    /\ lastEvent.ev = "startButton"
        => /\ currentState = WAITING
           /\ \E t \in timers : t.kind = "trigger" /\ t.id = waitTimeout /\ t.at = clock
    /\ lastEvent.ev = "playAgainButton"
        => /\ currentState = START
           /\ startTime = Null /\ reactionTime = Null /\ waitTimeout = Null

\* The start control was activated in Start.
C9_Witness ==
    /\ lastEvent.ev = "startButton"
    /\ lastEvent.from = START
    /\ currentState = WAITING

\* C10: for the reaction time shown in Result, the message's rating is
\* 'ultra-fast' iff time < 200, 'great' iff 200 <= time < 300, 'good' iff
\* 300 <= time < 500, 'room to improve' iff time >= 500, the new-record
\* notice follows iff isNewRecord, and the message shown is one of the two.
C10_RatingThresholds ==
    currentState = RESULT =>
        /\ \A isNewRecord \in BOOLEAN :
              LET m == getResultMessage(reactionTime, isNewRecord) IN
                 /\ Len(m) = IF isNewRecord THEN 2 ELSE 1
                 /\ m[1] = "ultra-fast" <=> reactionTime < 200
                 /\ m[1] = "great" <=> (200 <= reactionTime /\ reactionTime < 300)
                 /\ m[1] = "good" <=> (300 <= reactionTime /\ reactionTime < 500)
                 /\ m[1] = "room to improve" <=> reactionTime >= 500
                 /\ isNewRecord => m[2] = "new record"
        /\ resultMessage \in {getResultMessage(reactionTime, b) : b \in BOOLEAN}

\* evaluate(450, true): 'good' with the notice.
C10_Witness ==
    /\ currentState = RESULT
    /\ reactionTime = 450
    /\ resultMessage = <<"good", "new record">>
\* C11: the page-discard hook asks for confirmation if and only if a game
\* exists and its state is Waiting or Ready; in Start, Result and Error, and
\* before a game exists, the discard proceeds without confirmation.
C11_ConfirmOnlyWhileInProgress ==
    lastEvent.ev \in {"unload", "unloadConfirmed", "unloadCancelled"}
        => (lastEvent.ev \in {"unloadConfirmed", "unloadCancelled"}
               <=> lastEvent.from \in {WAITING, READY})

\* The hook asked for confirmation while the game was Ready.
C11_Witness ==
    /\ lastEvent.ev = "unloadCancelled"
    /\ lastEvent.from = READY
    /\ currentState = READY

\* The discard went ahead unasked before a game existed.
C11_WitnessNoGame ==
    /\ lastEvent.ev = "unload"
    /\ lastEvent.from = "none"
\* C12 (as claimed): the auto-reset callback of an Error period that a manual
\* reset ended never moves the machine out of Waiting, Ready or Result and
\* never removes an outstanding trigger.
C12_StaleAutoResetHarmless ==
    [][ (lastEvent'.ev = "autoreset" /\ lastEvent'.timer.endedBy = "reset")
            => /\ currentState \in {WAITING, READY, RESULT} => currentState' = currentState
               /\ \A t \in timers : t.kind = "trigger" => \E u \in timers' : u.id = t.id ]_vars
\* C13 (as claimed): at most one trigger timer and at most one Error
\* auto-reset timer are outstanding.
C13_AtMostOneTimerOfEachKind ==
    /\ Cardinality({t \in timers : t.kind = "trigger"}) <= 1
    /\ Cardinality({t \in timers : t.kind = "autoreset"}) <= 1
\* C14 (as claimed): waitTimeout is non-null only while the state is Waiting
\* or Error.
C14_HandleOnlyInWaitingOrError ==
    waitTimeout # Null => currentState \in {WAITING, ERROR}

\* C14 (amended): waitTimeout is null in Start and Error; in Waiting it is the
\* handle of the outstanding trigger; in Ready and Result it still holds the
\* handle of the trigger that fired, which is no longer outstanding.
C14_HandleByState ==
    /\ currentState \in {START, ERROR} => waitTimeout = Null
    /\ currentState = WAITING
        => \E t \in timers : t.id = waitTimeout /\ t.kind = "trigger"
    /\ currentState \in {READY, RESULT}
        => /\ waitTimeout # Null
           /\ \A t \in timers : t.id # waitTimeout

\* Ready after the trigger fired, with an auto-reset of an earlier Error
\* period still outstanding.
C14_Witness ==
    /\ currentState = READY
    /\ lastEvent.ev = "trigger"
    /\ waitTimeout = lastEvent.timer.id
    /\ timers # {}

\* C15: when start is issued only in Start, startTime is non-null if and only
\* if the state is Ready or Result.
C15_StartTimeIffReadyOrResult ==
    startTime # Null <=> currentState \in {READY, RESULT}

\* startTime was retained through Ready -> Result.
C15_Witness ==
    /\ currentState = RESULT
    /\ lastEvent.ev = "surface"
    /\ lastEvent.from = READY
    /\ startTime # Null

\* C16 (as claimed): immediately after a reset or a start handled in any
\* state, startTime and reactionTime are null.
C16_SessionRecreated ==
    lastEvent.ev \in {"startButton", "playAgainButton"}
        => (startTime = Null /\ reactionTime = Null)

\* C17: a surface click handled in Start, Result or Error changes neither the
\* state, startTime, reactionTime, the stored handle, the outstanding timers
\* nor the best score (in memory and persisted).
C17_IgnoredClickChangesNothing ==
    [][ (lastEvent'.ev = "surface" /\ currentState \in {START, RESULT, ERROR})
            => UNCHANGED <<currentState, startTime, reactionTime, waitTimeout,
                           timers, nextHandle, bestScore, storage>> ]_vars

\* A click was handled in Error while its auto-reset was outstanding.
C17_Witness ==
    /\ lastEvent.ev = "surface"
    /\ lastEvent.from = ERROR
    /\ currentState = ERROR
    /\ timers # {}

\* C18: in Result a best score is stored, the best score in memory is the
\* stored one, and it is at most the session's reactionTime.
C18_ResultHasBestScore ==
    currentState = RESULT
        => /\ storage # Absent
           /\ bestScore # Null
           /\ reactionTime # Null
           /\ bestScore = parseInt(storage)
           /\ storage = toString(bestScore)
           /\ bestScore <= reactionTime

\* A session slower than the stored record reached Result.
C18_Witness ==
    /\ currentState = RESULT
    /\ bestScore = 250
    /\ reactionTime = 500

====
